---- MODULE Spec2Model ----
(***************************************************************************)
(* Model of camera_server.py: the single-slot frame broadcast              *)
(* (StreamingOutput), HTTP Basic authentication (AuthHandler.check_auth),  *)
(* request routing and the MJPEG streaming loop (AuthHandler.do_GET), the  *)
(* server class (StreamingServer) and the start-up / shut-down sequence of *)
(* the __main__ block.                                                     *)
(*                                                                         *)
(* Text is modelled as sequences of character codes, bytes as sequences of *)
(* integers 0..255.                                                        *)
(***************************************************************************)
EXTENDS Integers, Sequences, FiniteSets, TLC

(***************************************************************************)
(* Bounds of the model.                                                    *)
(***************************************************************************)
MaxPayloadLen == 5      \* longest credential payload enumerated
NumClients == 2         \* client connections
MaxFrames == 3          \* frames the capture pipeline publishes

(***************************************************************************)
(* Configuration (lines 22-23): the credentials the process was started    *)
(* with, here CAM_USER=a and CAM_PASS=b.                                   *)
(***************************************************************************)
USERNAME == <<97>>
PASSWORD == <<98>>

None == <<-1>>          \* headers.get('Authorization') when the header is absent

(***************************************************************************)
(* Pure helpers of check_auth.  A helper that can raise returns a record   *)
(* [ok |-> FALSE] for the exception and [ok |-> TRUE, val |-> ...]         *)
(* otherwise.                                                              *)
(***************************************************************************)

\* index of the first occurrence of character ch in s, 0 if there is none
RECURSIVE FindFrom(_, _, _)
FindFrom(s, ch, i) ==
    IF i > Len(s) THEN 0
    ELSE IF s[i] = ch THEN i
    ELSE FindFrom(s, ch, i + 1)

\* str.split(sep, 1): one or two pieces
Split1(s, ch) ==
    LET k == FindFrom(s, ch, 1) IN
    IF k = 0 THEN <<s>>
    ELSE <<SubSeq(s, 1, k - 1), SubSeq(s, k + 1, Len(s))>>

\* str.lower() on one character (ASCII and Latin-1 capitals)
LowerChar(c) ==
    IF c >= 65 /\ c <= 90 THEN c + 32
    ELSE IF c >= 192 /\ c <= 222 /\ c # 215 THEN c + 32
    ELSE c

Lower(s) == [i \in 1..Len(s) |-> LowerChar(s[i])]

BasicLower == <<98, 97, 115, 105, 99>>      \* 'basic'

\* value of a character in the base64 alphabet, 64 for any other character
B64Val(c) ==
    IF c >= 65 /\ c <= 90 THEN c - 65
    ELSE IF c >= 97 /\ c <= 122 THEN c - 71
    ELSE IF c >= 48 /\ c <= 57 THEN c + 4
    ELSE IF c = 43 THEN 62
    ELSE IF c = 47 THEN 63
    ELSE 64

PadChar == 61       \* '='

\* binascii.a2b_base64 in its default (non-strict) mode, as b64decode calls it:
\* characters outside the alphabet are skipped, a complete pad sequence ends
\* the input, leftover data characters are an error.
RECURSIVE A2bBase64(_, _, _, _, _, _)
A2bBase64(s, i, quadPos, leftChar, pads, out) ==
    IF i > Len(s) THEN
        IF quadPos # 0 THEN [ok |-> FALSE, val |-> <<>>]
        ELSE [ok |-> TRUE, val |-> out]
    ELSE IF s[i] = PadChar THEN
        IF quadPos >= 2 /\ quadPos + pads + 1 >= 4
        THEN [ok |-> TRUE, val |-> out]
        ELSE A2bBase64(s, i + 1, quadPos, leftChar,
                       IF quadPos >= 2 THEN pads + 1 ELSE pads, out)
    ELSE IF B64Val(s[i]) = 64 THEN
        A2bBase64(s, i + 1, quadPos, leftChar, pads, out)
    ELSE
        LET v == B64Val(s[i]) IN
        CASE quadPos = 0 -> A2bBase64(s, i + 1, 1, v, 0, out)
          [] quadPos = 1 -> A2bBase64(s, i + 1, 2, v % 16, 0,
                                      Append(out, leftChar * 4 + (v \div 16)))
          [] quadPos = 2 -> A2bBase64(s, i + 1, 3, v % 4, 0,
                                      Append(out, leftChar * 16 + (v \div 4)))
          [] quadPos = 3 -> A2bBase64(s, i + 1, 0, 0, 0,
                                      Append(out, leftChar * 64 + v))

IsAscii(s) == \A i \in 1..Len(s) : s[i] < 128

\* base64.b64decode(credentials) for a str argument: a non-ASCII character
\* raises ValueError, otherwise the bytes go through a2b_base64
B64Decode(s) ==
    IF ~IsAscii(s) THEN [ok |-> FALSE, val |-> <<>>]
    ELSE A2bBase64(s, 1, 0, 0, 0, <<>>)

IsCont(b, i) == i <= Len(b) /\ b[i] >= 128 /\ b[i] <= 191

\* bytes.decode('utf-8'), strict: the code points, or an error
RECURSIVE Utf8Decode(_, _, _)
Utf8Decode(b, i, out) ==
    IF i > Len(b) THEN [ok |-> TRUE, val |-> out]
    ELSE LET c == b[i] IN
    IF c < 128 THEN Utf8Decode(b, i + 1, Append(out, c))
    ELSE IF c >= 194 /\ c <= 223 THEN
        IF IsCont(b, i + 1)
        THEN Utf8Decode(b, i + 2, Append(out, (c - 192) * 64 + (b[i + 1] - 128)))
        ELSE [ok |-> FALSE, val |-> <<>>]
    ELSE IF c >= 224 /\ c <= 239 THEN
        IF /\ IsCont(b, i + 1) /\ IsCont(b, i + 2)
           /\ (c = 224 => b[i + 1] >= 160)
           /\ (c = 237 => b[i + 1] <= 159)
        THEN Utf8Decode(b, i + 3,
                 Append(out, (c - 224) * 4096 + (b[i + 1] - 128) * 64 + (b[i + 2] - 128)))
        ELSE [ok |-> FALSE, val |-> <<>>]
    ELSE IF c >= 240 /\ c <= 244 THEN
        IF /\ IsCont(b, i + 1) /\ IsCont(b, i + 2) /\ IsCont(b, i + 3)
           /\ (c = 240 => b[i + 1] >= 144)
           /\ (c = 244 => b[i + 1] <= 143)
        THEN Utf8Decode(b, i + 4,
                 Append(out, (c - 240) * 262144 + (b[i + 1] - 128) * 4096
                             + (b[i + 2] - 128) * 64 + (b[i + 3] - 128)))
        ELSE [ok |-> FALSE, val |-> <<>>]
    ELSE [ok |-> FALSE, val |-> <<>>]

(***************************************************************************)
(* AuthHandler.check_auth (lines 37-51).  CheckAuthBody is the body of the *)
(* try block: it yields a boolean or raises.  The bare except turns every  *)
(* exception into False.  The result records whether the call raised and   *)
(* the value it returned.                                                  *)
(***************************************************************************)
CheckAuthBody(authHeader) ==
    LET parts == Split1(authHeader, 32) IN
    IF Len(parts) # 2 THEN [raised |-> TRUE, value |-> FALSE]       \* unpack fails
    ELSE IF Lower(parts[1]) # BasicLower THEN [raised |-> FALSE, value |-> FALSE]
    ELSE LET raw == B64Decode(parts[2]) IN
    IF ~raw.ok THEN [raised |-> TRUE, value |-> FALSE]
    ELSE LET decoded == Utf8Decode(raw.val, 1, <<>>) IN
    IF ~decoded.ok THEN [raised |-> TRUE, value |-> FALSE]
    ELSE LET up == Split1(decoded.val, 58) IN
    IF Len(up) # 2 THEN [raised |-> TRUE, value |-> FALSE]          \* unpack fails
    ELSE [raised |-> FALSE, value |-> (up[1] = USERNAME /\ up[2] = PASSWORD)]

\* a try block without the except clause: the exception propagates
TryNoExcept(r) == r

\* try: ... except: return False
TryExceptFalse(r) ==
    IF r.raised THEN [raised |-> FALSE, value |-> FALSE] ELSE r

check_auth(authHeader) ==
    IF authHeader = None \/ authHeader = <<>>
    THEN [raised |-> FALSE, value |-> FALSE]
    ELSE TryExceptFalse(CheckAuthBody(authHeader))

(***************************************************************************)
(* Inputs.  A header is a character sequence such as 'Basic YTpi'.  The    *)
(* enumerated payloads are all strings up to MaxPayloadLen over the        *)
(* characters of base64('a:b') = 'YTpi', the pad character '=' and '!', a  *)
(* character outside the base64 alphabet; SamplePayloads adds the          *)
(* credentials that differ from the configured ones by case only, a        *)
(* payload holding a space and one holding a non-ASCII character.          *)
(***************************************************************************)
PayloadChars == {89, 84, 112, 105, 61, 33}

RECURSIVE SeqsUpTo(_, _)
SeqsUpTo(S, n) ==
    IF n = 0 THEN {<<>>}
    ELSE LET shorter == SeqsUpTo(S, n - 1) IN
         shorter \cup {Append(p, ch) : p \in {q \in shorter : Len(q) = n - 1}, ch \in S}

SamplePayloads ==
    { <<89, 84, 112, 105>>,         \* 'YTpi'  a:b
      <<81, 84, 112, 105>>,         \* 'QTpi'  A:b
      <<89, 84, 112, 67>>,          \* 'YTpC'  a:B
      <<89, 84, 32, 112, 105>>,     \* 'YT pi'
      <<89, 84, 112, 233>>,         \* 'YTp' followed by a non-ASCII character
      <<89, 87, 74, 105>> }         \* 'YWJi'  abb
Payloads == SeqsUpTo(PayloadChars, MaxPayloadLen) \cup SamplePayloads

SchemeBasic == <<66, 97, 115, 105, 99>>         \* 'Basic'
SchemeUpper == <<66, 65, 83, 73, 67>>           \* 'BASIC'
SchemeBearer == <<66, 101, 97, 114, 101, 114>>  \* 'Bearer'
Schemes == {SchemeBasic, SchemeUpper, SchemeBearer}

AllHeaders ==
    {None, <<>>} \cup Schemes
        \cup {SchemeBasic \o <<32>> \o p : p \in Payloads}
        \cup {s \o <<32>> \o p : s \in Schemes, p \in SamplePayloads}

GoodHeader == SchemeBasic \o <<32, 89, 84, 112, 105>>       \* 'Basic YTpi'  a:b
WrongPassHeader == SchemeBasic \o <<32, 89, 84, 112, 67>>   \* 'Basic YTpC'  a:B
TruncatedHeader == SchemeBasic \o <<32, 89, 84, 112>>       \* 'Basic YTp'
HeaderSamples == {None, GoodHeader, WrongPassHeader, TruncatedHeader}

Paths == {"/", "/index.html", "/stream.mjpg", "/stream.mjpg?1", "/nonexistent"}

Clients == 1..NumClients

(***************************************************************************)
(* State.                                                                  *)
(***************************************************************************)
VARIABLES
    mainPc,     \* position of the __main__ block (lines 258-281)
    unhandled,  \* an exception is propagating out of the try statement
    recording,  \* picam2 is recording: the encoder thread calls output.write
    listener,   \* the listening socket is bound
    queue,      \* connections waiting on the listening socket, oldest first
    st,         \* per client: "idle", "pending", "handling", "done"
    cur,        \* client whose request the server is handling, 0 if none
    req,        \* the request being handled: path and Authorization header
    authRes,    \* what check_auth did for this request
    pc,         \* position of the handler inside do_GET
    resp,       \* response head and body written to the current connection
    part,       \* the writes of the multipart part in progress
    stalled,    \* the current client does not drain its socket: writes block
    broken,     \* the current client has reset the connection: writes raise
    failed,     \* a write to the current connection has raised
    touched,    \* the handler has used output.condition / output.frame
    frame,      \* output.frame: 0 is None, n is the buffer of the n-th write
    lockOwner,  \* holder of output.condition's lock
    waiters,    \* threads blocked in output.condition.wait(), not yet notified
    prodPc,     \* position of the encoder thread inside StreamingOutput.write
    prodBuf,    \* buf argument of the write in progress
    version,    \* number of completed assignments to output.frame
    sessFrame,  \* the handler's local variable frame
    prevGot,    \* the frame the previous wait of this session returned
    waitBegin,  \* version when the current wait released the lock
    coalesced   \* assignments to output.frame since the current wait began

vars == <<mainPc, unhandled, recording, listener, queue, st, cur, req, authRes,
          pc, resp, part, stalled, broken, failed, touched, frame, lockOwner,
          waiters, prodPc, prodBuf, version, sessFrame, prevGot, waitBegin,
          coalesced>>

mainVars == <<mainPc, unhandled, recording, listener>>
connVars == <<queue, st>>
reqVars == <<cur, req, authRes, resp>>
clientVars == <<stalled, broken>>
slotVars == <<frame, lockOwner, waiters, version>>
prodVars == <<prodPc, prodBuf>>
sessVars == <<sessFrame, prevGot, waitBegin, coalesced>>

NoReq == [path |-> "", hdr |-> None]
NoAuth == [called |-> FALSE, raised |-> FALSE, value |-> FALSE]
NoResp == [status |-> 0, headers |-> {}, body |-> ""]

\* StreamingOutput.__init__ (lines 27-29)
NewFrame == 0
NewLockOwner == "none"
NewWaiters == {}

RequestIdle ==
    /\ cur = 0 /\ req = NoReq /\ authRes = NoAuth /\ pc = "idle"
    /\ resp = NoResp /\ part = <<>>
    /\ stalled = FALSE /\ broken = FALSE /\ failed = FALSE /\ touched = FALSE
    /\ sessFrame = 0 /\ prevGot = 0 /\ waitBegin = 0 /\ coalesced = 0

Init ==
    /\ mainPc = "camera" /\ unhandled = FALSE
    /\ recording = FALSE /\ listener = FALSE
    /\ queue = <<>> /\ st = [c \in Clients |-> "idle"]
    /\ RequestIdle
    /\ frame = NewFrame /\ lockOwner = NewLockOwner /\ waiters = NewWaiters
    /\ prodPc = "idle" /\ prodBuf = 0 /\ version = 0

(***************************************************************************)
(* The __main__ block (lines 258-281).  The capture steps run before the   *)
(* try statement, so an exception in one of them ends the process at once. *)
(***************************************************************************)
CreateCamera ==         \* line 260
    /\ mainPc = "camera"
    /\ mainPc' = "configure"
    /\ UNCHANGED <<unhandled, recording, listener, connVars, reqVars, pc, part,
                   clientVars, failed, touched, slotVars, prodVars, sessVars>>

ConfigureCamera ==      \* lines 261-265
    /\ mainPc = "configure"
    /\ mainPc' = "output"
    /\ UNCHANGED <<unhandled, recording, listener, connVars, reqVars, pc, part,
                   clientVars, failed, touched, slotVars, prodVars, sessVars>>

CreateOutput ==         \* line 267
    /\ mainPc = "output"
    /\ mainPc' = "start_recording"
    /\ frame' = NewFrame /\ lockOwner' = NewLockOwner /\ waiters' = NewWaiters
    /\ UNCHANGED <<unhandled, recording, listener, connVars, reqVars, pc, part,
                   clientVars, failed, touched, version, prodVars, sessVars>>

StartRecording ==       \* line 268
    /\ mainPc = "start_recording"
    /\ mainPc' = "bind"
    /\ recording' = TRUE
    /\ UNCHANGED <<unhandled, listener, connVars, reqVars, pc, part,
                   clientVars, failed, touched, slotVars, prodVars, sessVars>>

\* a start-up that swallows the exception and goes on to the listener
SwallowStartupError == "bind"

\* lines 260-268 are outside the try statement: the traceback ends the process
OnStartupError == "crashed"

\* Picamera2(), configure() or start_recording() raises: nothing catches it
StartupFail ==
    /\ mainPc \in {"camera", "configure", "start_recording"}
    /\ mainPc' = OnStartupError
    /\ UNCHANGED <<unhandled, recording, listener, connVars, reqVars, pc, part,
                   clientVars, failed, touched, slotVars, prodVars, sessVars>>

Bind ==                 \* line 271, then serve_forever at line 276
    /\ mainPc = "bind"
    /\ mainPc' = "serve"
    /\ listener' = TRUE
    /\ UNCHANGED <<unhandled, recording, connVars, reqVars, pc, part,
                   clientVars, failed, touched, slotVars, prodVars, sessVars>>

\* a try statement without the finally clause
NoFinally == "crashed"

\* finally (lines 279-281) runs whatever ended the try block
OnBindError == "stop_recording"

\* line 271 raises OSError: not a KeyboardInterrupt, the finally clause runs
\* and the exception goes on
BindFail ==
    /\ mainPc = "bind"
    /\ mainPc' = OnBindError
    /\ unhandled' = TRUE
    /\ UNCHANGED <<recording, listener, connVars, reqVars, pc, part,
                   clientVars, failed, touched, slotVars, prodVars, sessVars>>

\* KeyboardInterrupt in serve_forever (lines 276-278).  The handler runs in
\* the thread of serve_forever: the interrupt unwinds it, leaving the with
\* block (the lock is released, the waiter is removed).
Interrupt ==
    /\ mainPc = "serve"
    /\ mainPc' = "stop_recording"
    /\ lockOwner' = IF lockOwner = "main" THEN "none" ELSE lockOwner
    /\ waiters' = waiters \ {"main"}
    /\ st' = IF cur = 0 THEN st ELSE [st EXCEPT ![cur] = "done"]
    /\ cur' = 0 /\ req' = NoReq /\ authRes' = NoAuth /\ pc' = "idle"
    /\ resp' = NoResp /\ part' = <<>>
    /\ stalled' = FALSE /\ broken' = FALSE /\ failed' = FALSE /\ touched' = FALSE
    /\ sessFrame' = 0 /\ prevGot' = 0 /\ waitBegin' = 0 /\ coalesced' = 0
    /\ UNCHANGED <<unhandled, recording, listener, queue, frame, version, prodVars>>

StopRecording ==        \* line 280: returns once the encoder thread is idle
    /\ mainPc = "stop_recording"
    /\ prodPc = "idle"
    /\ mainPc' = "stop"
    /\ recording' = FALSE
    /\ UNCHANGED <<unhandled, listener, connVars, reqVars, pc, part,
                   clientVars, failed, touched, slotVars, prodVars, sessVars>>

StopCamera ==           \* line 281, then the process ends
    /\ mainPc = "stop"
    /\ mainPc' = IF unhandled THEN "crashed" ELSE "exited"
    /\ listener' = FALSE
    /\ UNCHANGED <<unhandled, recording, connVars, reqVars, pc, part,
                   clientVars, failed, touched, slotVars, prodVars, sessVars>>

(***************************************************************************)
(* The encoder thread: StreamingOutput.write (lines 31-34).                *)
(***************************************************************************)
\* self.frame = buf, with a slot that keeps the oldest unread buffer instead
KeepOldFrame(old, buf) == IF old = 0 THEN buf ELSE old

\* self.frame = buf (line 33)
StoreFrame(old, buf) == buf

\* a notify that wakes nobody
NotifyNone(w) == w

\* self.condition.notify_all() (line 34): the waiters left blocked
NotifyAll(w) == {}

ProducerAcquire ==      \* write(buf) is called; with self.condition (line 32)
    /\ recording
    /\ prodPc = "idle"
    /\ version < MaxFrames
    /\ lockOwner = "none"
    /\ lockOwner' = "producer"
    /\ prodPc' = "store"
    /\ prodBuf' = version + 1
    /\ UNCHANGED <<mainVars, connVars, reqVars, pc, part, clientVars, failed,
                   touched, frame, waiters, version, sessVars>>

ProducerStore ==        \* line 33
    /\ prodPc = "store"
    /\ frame' = StoreFrame(frame, prodBuf)
    /\ version' = version + 1
    /\ coalesced' = IF pc = "waiting" THEN coalesced + 1 ELSE coalesced
    /\ prodPc' = "notify"
    /\ UNCHANGED <<mainVars, connVars, reqVars, pc, part, clientVars, failed,
                   touched, lockOwner, waiters, prodBuf, sessFrame, prevGot,
                   waitBegin>>

ProducerNotify ==       \* line 34 and the end of the with block
    /\ prodPc = "notify"
    /\ waiters' = NotifyAll(waiters)
    /\ lockOwner' = "none"
    /\ prodPc' = "idle"
    /\ UNCHANGED <<mainVars, connVars, reqVars, pc, part, clientVars, failed,
                   touched, frame, version, prodBuf, sessVars>>

(***************************************************************************)
(* Clients.                                                                *)
(***************************************************************************)
ClientConnect(c) ==     \* a connection arrives on the listening socket
    /\ listener
    /\ st[c] = "idle"
    /\ st' = [st EXCEPT ![c] = "pending"]
    /\ queue' = Append(queue, c)
    /\ UNCHANGED <<mainVars, reqVars, pc, part, clientVars, failed, touched,
                   slotVars, prodVars, sessVars>>

ClientStall ==          \* the current client stops or resumes reading
    /\ cur # 0
    /\ ~broken
    /\ stalled' = ~stalled
    /\ UNCHANGED <<mainVars, connVars, reqVars, pc, part, broken, failed,
                   touched, slotVars, prodVars, sessVars>>

ClientDisconnect ==     \* the current client resets the connection
    /\ cur # 0
    /\ ~broken
    /\ broken' = TRUE
    /\ stalled' = FALSE
    /\ UNCHANGED <<mainVars, connVars, reqVars, pc, part, failed, touched,
                   slotVars, prodVars, sessVars>>

(***************************************************************************)
(* StreamingServer (lines 254-256) derives from HTTPServer: the request is *)
(* handled in the thread of serve_forever, which accepts the next          *)
(* connection when the handler has returned.                               *)
(***************************************************************************)
ServerCanAccept == cur = 0

Accept(c) ==
    /\ mainPc = "serve"
    /\ ServerCanAccept
    /\ queue # <<>> /\ c = Head(queue)
    /\ queue' = Tail(queue)
    /\ st' = [st EXCEPT ![c] = "handling"]
    /\ cur' = c
    /\ \E path \in Paths, hdr \in HeaderSamples : req' = [path |-> path, hdr |-> hdr]
    /\ pc' = "do_GET"
    /\ UNCHANGED <<mainVars, authRes, resp, part, clientVars, failed, touched,
                   slotVars, prodVars, sessVars>>

\* do_GET has returned or raised: the connection is closed
Finish ==
    /\ mainPc = "serve"
    /\ pc \in {"return", "closed", "error"}
    /\ st' = [st EXCEPT ![cur] = "done"]
    /\ cur' = 0 /\ req' = NoReq /\ authRes' = NoAuth /\ pc' = "idle"
    /\ resp' = NoResp /\ part' = <<>>
    /\ stalled' = FALSE /\ broken' = FALSE /\ failed' = FALSE /\ touched' = FALSE
    /\ sessFrame' = 0 /\ prevGot' = 0 /\ waitBegin' = 0 /\ coalesced' = 0
    /\ UNCHANGED <<mainVars, queue, slotVars, prodVars>>

(***************************************************************************)
(* AuthHandler.do_GET (lines 60-252).                                      *)
(***************************************************************************)
\* a router that serves the landing page for every unknown path
RouteUnknownToIndex(path) ==
    IF path = "/stream.mjpg" THEN "stream_headers" ELSE "index_headers"

\* a router that drops the query string before it compares
RouteIgnoringQuery(path) ==
    IF path = "/" \/ path = "/index.html" THEN "index_headers"
    ELSE IF path = "/stream.mjpg" \/ path = "/stream.mjpg?1" THEN "stream_headers"
    ELSE "notfound_headers"

\* lines 65, 228, 251: self.path is the request target, query string included
Route(path) ==
    IF path = "/" \/ path = "/index.html" THEN "index_headers"
    ELSE IF path = "/stream.mjpg" THEN "stream_headers"
    ELSE "notfound_headers"

\* a do_GET that lets the stream path through without credentials
AfterAuthStreamOpen(ok, path) ==
    IF path = "/stream.mjpg" THEN Route(path)
    ELSE IF ~ok THEN "auth_headers" ELSE Route(path)

\* a do_GET that checks the credentials again when they were refused
AfterAuthRetry(ok, path) ==
    IF ~ok THEN "do_GET" ELSE Route(path)

\* lines 61-65: the 401 challenge unless check_auth returned True
AfterAuth(ok, path) ==
    IF ~ok THEN "auth_headers" ELSE Route(path)

DoGet ==                \* line 61
    /\ mainPc = "serve"
    /\ pc = "do_GET"
    /\ LET r == check_auth(req.hdr) IN
        /\ authRes' = [called |-> TRUE, raised |-> r.raised, value |-> r.value]
        /\ pc' = IF r.raised THEN "error" ELSE AfterAuth(r.value, req.path)
    /\ UNCHANGED <<mainVars, connVars, cur, req, resp, part, clientVars, failed,
                   touched, slotVars, prodVars, sessVars>>

\* One write to the connection (wfile.write, or end_headers flushing the
\* buffered header lines): blocks while the client does not read, raises when
\* the connection is reset, otherwise the client has newResp, newPart.
Write(okPc, failPc, newResp, newPart) ==
    /\ mainPc = "serve"
    /\ ~stalled
    /\ IF broken
       THEN /\ failed' = TRUE
            /\ pc' = failPc
            /\ UNCHANGED <<resp, part>>
       ELSE /\ failed' = failed
            /\ pc' = okPc
            /\ resp' = newResp
            /\ part' = newPart
    /\ UNCHANGED <<mainVars, connVars, cur, req, authRes, clientVars, touched,
                   slotVars, prodVars, sessVars>>

AuthResponse ==         \* send_auth_request, lines 54-57
    [status |-> 401,
     headers |-> {"WWW-Authenticate: Basic realm=\"Pi Camera\"", "Content-Type: text/html"},
     body |-> ""]

SendAuthHeaders ==      \* lines 54-57
    /\ pc = "auth_headers"
    /\ Write("auth_body", "error", AuthResponse, part)

SendAuthBody ==         \* line 58
    /\ pc = "auth_body"
    /\ Write("return", "error",
             [resp EXCEPT !.body = "<h1>401 - Authentication Required</h1>"], part)

IndexResponse ==        \* lines 66-68
    [status |-> 200, headers |-> {"Content-Type: text/html"}, body |-> ""]

SendIndexHeaders ==     \* lines 66-68
    /\ pc = "index_headers"
    /\ Write("index_body", "error", IndexResponse, part)

SendIndexBody ==        \* line 226
    /\ pc = "index_body"
    /\ Write("return", "error", [resp EXCEPT !.body = "html"], part)

NotFoundResponse ==     \* send_error(404), line 252
    [status |-> 404,
     headers |-> {"Content-Type: text/html;charset=utf-8", "Connection: close"},
     body |-> ""]

SendNotFoundHeaders ==  \* line 252
    /\ pc = "notfound_headers"
    /\ Write("notfound_body", "error", NotFoundResponse, part)

SendNotFoundBody ==     \* line 252
    /\ pc = "notfound_body"
    /\ Write("return", "error", [resp EXCEPT !.body = "Error response 404"], part)

StreamResponse ==       \* lines 229-234
    [status |-> 200,
     headers |-> {"Content-Type: multipart/x-mixed-replace; boundary=FRAME",
                  "Cache-Control: no-cache, no-store, must-revalidate",
                  "Pragma: no-cache", "Expires: 0"},
     body |-> ""]

SendStreamHeaders ==    \* lines 229-234
    /\ pc = "stream_headers"
    /\ Write("lock", "error", StreamResponse, part)

(***************************************************************************)
(* The streaming loop (lines 236-249).                                     *)
(***************************************************************************)
\* a wait that may return without a notify
SpuriousReturn(w) == TRUE

\* Condition.wait() returns once notify_all has released this waiter
CanReturnFromWait(w) == "main" \notin w

\* a handler that keeps the lock while it writes the part
OwnerKept == "main"

\* the end of the with block (after line 240) releases the lock
OwnerAfterWith == "none"

\* an except clause that lets the exception take the server down
PropagateError == "fatal"

\* an except clause that goes round the loop again
RetryOnError == "lock"

\* except Exception (lines 248-249): print, and do_GET returns
OnStreamError == "closed"

\* the bytes of the n-th buffer the encoder hands to write: n bytes of value n
FrameBytes(f) == [i \in 1..f |-> f]

\* len(frame) (line 244)
FrameLen(f) == Len(FrameBytes(f))

\* a Content-Length taken from output.frame instead of the local copy
LengthOfSlot(local, slot) == slot

\* line 244 measures the local variable frame, the copy made at line 240
LengthOperand(local, slot) == local

SessLock ==             \* with output.condition (line 238)
    /\ mainPc = "serve"
    /\ pc = "lock"
    /\ lockOwner = "none"
    /\ lockOwner' = "main"
    /\ touched' = TRUE
    /\ pc' = "wait"
    /\ UNCHANGED <<mainVars, connVars, reqVars, part, clientVars, failed,
                   frame, waiters, version, prodVars, sessVars>>

SessWait ==             \* output.condition.wait() (line 239): release and block
    /\ mainPc = "serve"
    /\ pc = "wait"
    /\ lockOwner' = "none"
    /\ waiters' = waiters \cup {"main"}
    /\ waitBegin' = version
    /\ coalesced' = 0
    /\ pc' = "waiting"
    /\ UNCHANGED <<mainVars, connVars, reqVars, part, clientVars, failed,
                   touched, frame, version, prodVars, sessFrame, prevGot>>

SessReacquire ==        \* wait() takes the lock again and returns
    /\ mainPc = "serve"
    /\ pc = "waiting"
    /\ CanReturnFromWait(waiters)
    /\ lockOwner = "none"
    /\ lockOwner' = "main"
    /\ waiters' = waiters \ {"main"}
    /\ pc' = "woken"
    /\ UNCHANGED <<mainVars, connVars, reqVars, part, clientVars, failed,
                   touched, frame, version, prodVars, sessVars>>

SessCopy ==             \* frame = output.frame (line 240), end of the with block
    /\ mainPc = "serve"
    /\ pc = "woken"
    /\ prevGot' = sessFrame
    /\ sessFrame' = frame
    /\ lockOwner' = OwnerAfterWith
    /\ pc' = "w_boundary"
    /\ UNCHANGED <<mainVars, connVars, reqVars, part, clientVars, failed,
                   touched, frame, waiters, version, prodVars, waitBegin,
                   coalesced>>

WriteBoundary ==        \* line 242
    /\ pc = "w_boundary"
    /\ Write("w_headers", OnStreamError, resp,
             <<[kind |-> "boundary", val |-> 0, data |-> <<>>]>>)

\* lines 243-245: len(None) raises TypeError before anything is written
WriteHeaders ==
    /\ pc = "w_headers"
    /\ IF sessFrame = 0
       THEN /\ mainPc = "serve"
            /\ pc' = OnStreamError
            /\ UNCHANGED <<mainVars, connVars, reqVars, part, clientVars,
                           failed, touched, slotVars, prodVars, sessVars>>
       ELSE Write("w_frame", OnStreamError, resp,
                  part \o <<[kind |-> "type", val |-> 0, data |-> <<>>],
                            [kind |-> "length",
                             val |-> FrameLen(LengthOperand(sessFrame, frame)),
                             data |-> <<>>],
                            [kind |-> "blank", val |-> 0, data |-> <<>>]>>)

WriteFrame ==           \* line 246
    /\ pc = "w_frame"
    /\ Write("w_term", OnStreamError, resp,
             Append(part, [kind |-> "bytes", val |-> 0, data |-> FrameBytes(sessFrame)]))

WriteTerm ==            \* line 247, then back to line 238
    /\ pc = "w_term"
    /\ Write("lock", OnStreamError, resp,
             Append(part, [kind |-> "term", val |-> 0, data |-> <<>>]))

(***************************************************************************)
(* Specifications.                                                         *)
(***************************************************************************)
MainStep ==
    \/ CreateCamera \/ ConfigureCamera \/ CreateOutput \/ StartRecording
    \/ StartupFail \/ Bind \/ BindFail \/ Interrupt \/ StopRecording
    \/ StopCamera

ProducerStep == ProducerAcquire \/ ProducerStore \/ ProducerNotify

ClientStep == (\E c \in Clients : ClientConnect(c)) \/ ClientStall \/ ClientDisconnect

HandlerStep ==
    \/ \E c \in Clients : Accept(c)
    \/ DoGet
    \/ SendAuthHeaders \/ SendAuthBody
    \/ SendIndexHeaders \/ SendIndexBody
    \/ SendNotFoundHeaders \/ SendNotFoundBody
    \/ SendStreamHeaders
    \/ SessLock \/ SessWait \/ SessReacquire \/ SessCopy
    \/ WriteBoundary \/ WriteHeaders \/ WriteFrame \/ WriteTerm
    \/ Finish

Next == MainStep \/ ProducerStep \/ ClientStep \/ HandlerStep

Spec == Init /\ [][Next]_vars

\* The schedulers the code relies on: a thread that can run does run (the
\* encoder thread inside write, the handler after wait has its lock back), and
\* a notified waiter gets the lock at one of the moments it is free.
FairSpec ==
    /\ Spec
    /\ WF_vars(ProducerStore)
    /\ WF_vars(ProducerNotify)
    /\ SF_vars(SessReacquire)
    /\ WF_vars(SessCopy)

\* check_auth on its own: the server has accepted a request for the stream
\* path carrying any of the enumerated Authorization headers.
InitAuth ==
    /\ mainPc = "serve" /\ unhandled = FALSE
    /\ recording = TRUE /\ listener = TRUE
    /\ queue = <<>> /\ st = [c \in Clients |-> IF c = 1 THEN "handling" ELSE "idle"]
    /\ cur = 1
    /\ \E hdr \in AllHeaders : req = [path |-> "/stream.mjpg", hdr |-> hdr]
    /\ authRes = NoAuth /\ pc = "do_GET"
    /\ resp = NoResp /\ part = <<>>
    /\ stalled = FALSE /\ broken = FALSE /\ failed = FALSE /\ touched = FALSE
    /\ sessFrame = 0 /\ prevGot = 0 /\ waitBegin = 0 /\ coalesced = 0
    /\ frame = NewFrame /\ lockOwner = NewLockOwner /\ waiters = NewWaiters
    /\ prodPc = "idle" /\ prodBuf = 0 /\ version = 0

NextAuth == DoGet \/ SendAuthHeaders \/ SendAuthBody \/ SendStreamHeaders

SpecAuth == InitAuth /\ [][NextAuth]_vars

(***************************************************************************)
(* Properties.                                                             *)
(***************************************************************************)
PartPcs == {"w_boundary", "w_headers", "w_frame", "w_term"}
StreamingPcs == PartPcs \cup {"lock", "wait", "waiting", "woken"}

\* C1: while a session is streaming, a connection waiting on the listening
\* socket can still be accepted and served.
C1_SessionsServedConcurrently ==
    (mainPc = "serve" /\ pc \in StreamingPcs /\ queue # <<>>)
        => ENABLED Accept(Head(queue))

\* C2: a publish that completes its assignment while the session is blocked
\* in the wait leads to the session returning from the wait with a frame at
\* least as new as the slot held when the wait began (or to shutdown).
C2_NoLostWakeup ==
    (pc = "waiting" /\ version > waitBegin)
        ~> ((pc = "w_boundary" /\ sessFrame >= waitBegin /\ sessFrame > 0)
            \/ mainPc # "serve")

C2_Witness == pc = "woken" /\ version > waitBegin /\ coalesced = 1

\* C3: a session that has written a frame is never left blocked in the wait
\* while the slot already holds a newer frame.
C3_WaitReturnsWhenSlotIsNewer ==
    (pc = "waiting" /\ prodPc = "idle" /\ sessFrame > 0 /\ version > sessFrame)
        => "main" \notin waiters

\* C4: the frame a wait yields is newer than the frame of the session's
\* previous wait and newer than the frame held when the wait began.
C4_Monotonic ==
    pc \in PartPcs => (sessFrame > prevGot /\ sessFrame > waitBegin)

C4_Witness == pc = "w_boundary" /\ prevGot > 0 /\ sessFrame > prevGot

\* C5: after two or more publishes during one wait the session reads the
\* last of them, and the slot holds the latest frame only.
C5_Coalescing ==
    /\ frame = version
    /\ (pc \in PartPcs /\ coalesced >= 2) => sessFrame = waitBegin + coalesced

C5_Witness == pc = "w_boundary" /\ coalesced >= 2 /\ sessFrame = waitBegin + coalesced

\* C6: the handler holds the lock only around the wait and the copy, never
\* while it writes to the client, so a publish can always take the lock while
\* the session is writing or stalled in a write.
C6_PublishNeverBlocked ==
    /\ lockOwner = "main" => pc \in {"wait", "woken"}
    /\ pc \in PartPcs => lockOwner # "main"
    /\ (pc \in PartPcs /\ recording /\ prodPc = "idle" /\ version < MaxFrames)
           => ENABLED ProducerAcquire

C6_Witness == pc = "w_frame" /\ stalled /\ prodPc = "notify" /\ lockOwner = "producer"

WroteNow == cur' = cur /\ (resp' # resp \/ part' # part)
WaitedNow == lockOwner' = "main" \/ ("main" \in waiters' /\ "main" \notin waiters)

\* C7: once a write of a part has failed the session is closed: no step
\* writes to the connection or uses the condition again.
C7_ClosedAfterWriteFailure ==
    [][(failed /\ resp = StreamResponse)
          => (pc = "closed" /\ ~WroteNow /\ ~WaitedNow /\ pc' \in {"closed", "idle"})]_vars

C7_Witness == failed /\ resp = StreamResponse /\ pc = "closed" /\ Len(part) = 4

\* C8: nothing is written and the frame slot is not used before check_auth
\* has run; a request that fails it gets the 401 challenge only.
C8_AuthBeforeRouting ==
    /\ (cur # 0 /\ ~authRes.called) => (resp = NoResp /\ ~touched /\ pc = "do_GET")
    /\ (authRes.called /\ ~authRes.value) =>
          /\ pc \in {"auth_headers", "auth_body", "return", "error"}
          /\ resp.status \in {0, 401}
          /\ resp.status = 401 =>
                "WWW-Authenticate: Basic realm=\"Pi Camera\"" \in resp.headers
          /\ pc = "return" => resp.status = 401
          /\ ~touched

C8_Witness ==
    /\ pc = "return" /\ req.path = "/stream.mjpg" /\ req.hdr = WrongPassHeader
    /\ resp.status = 401 /\ ~touched

HeaderParts(h) == Split1(h, 32)
HeaderPayload(h) == HeaderParts(h)[2]

\* RFC 4648 base64: groups of four alphabet characters, '=' in the last one
\* or two places only
WellFormedBase64(p) ==
    /\ Len(p) % 4 = 0
    /\ \A i \in 1..Len(p) :
          \/ B64Val(p[i]) < 64
          \/ /\ p[i] = PadChar
             /\ i >= Len(p) - 1
             /\ p[Len(p)] = PadChar

\* C9: check_auth returns True only for the scheme Basic with a well-formed
\* base64 payload that decodes to USERNAME:PASSWORD.
C9_RejectsAllButExactCredential ==
    (authRes.called /\ authRes.value) =>
        /\ req.hdr # None
        /\ Len(HeaderParts(req.hdr)) = 2
        /\ Lower(HeaderParts(req.hdr)[1]) = BasicLower
        /\ WellFormedBase64(HeaderPayload(req.hdr))
        /\ B64Decode(HeaderPayload(req.hdr)).val = USERNAME \o <<58>> \o PASSWORD

NoSpace(h) == FindFrom(h, 32, 1) = 0
Undecodable(h) == ~NoSpace(h) /\ ~B64Decode(HeaderPayload(h)).ok
NotUtf8(h) ==
    /\ ~NoSpace(h) /\ B64Decode(HeaderPayload(h)).ok
    /\ ~Utf8Decode(B64Decode(HeaderPayload(h)).val, 1, <<>>).ok
NoColon(h) ==
    /\ ~NoSpace(h) /\ B64Decode(HeaderPayload(h)).ok
    /\ FindFrom(B64Decode(HeaderPayload(h)).val, 58, 1) = 0
ParseFailure(h) ==
    h = None \/ h = <<>> \/ NoSpace(h) \/ Undecodable(h) \/ NotUtf8(h) \/ NoColon(h)

\* C10: check_auth never raises; every header that fails to parse yields
\* False and the same 401 response as a wrong password.
C10_CheckAuthNeverRaises ==
    authRes.called =>
        /\ ~authRes.raised
        /\ pc # "error"
        /\ ParseFailure(req.hdr) => ~authRes.value
        /\ (pc = "return" /\ ~authRes.value) =>
              resp = [AuthResponse EXCEPT !.body = "<h1>401 - Authentication Required</h1>"]

C10_Witness ==
    /\ pc = "return" /\ resp.status = 401
    /\ Undecodable(req.hdr) /\ Lower(HeaderParts(req.hdr)[1]) = BasicLower

FailedNow == failed' /\ ~failed

\* C11: a failed write changes the state of its own session only: the frame
\* slot, the encoder thread, the main block and the other connections are as
\* before, the handler ends, the encoder can publish and the server can accept
\* the next connection.
C11_ErrorsContained ==
    /\ [](failed => /\ mainPc = "serve"
                    /\ pc \in {"closed", "error"}
                    /\ ENABLED Finish
                    /\ (recording /\ prodPc = "idle" /\ version < MaxFrames)
                          => ENABLED ProducerAcquire)
    /\ []((mainPc = "serve" /\ cur = 0 /\ queue # <<>>) => ENABLED Accept(Head(queue)))
    /\ [][FailedNow => /\ UNCHANGED <<frame, version, lockOwner, waiters>>
                       /\ UNCHANGED <<prodPc, prodBuf>>
                       /\ UNCHANGED <<mainPc, unhandled, recording, listener>>
                       /\ UNCHANGED <<queue, st, cur>>]_vars

C11_Witness ==
    /\ failed /\ resp = StreamResponse /\ pc = "closed"
    /\ queue # <<>> /\ prodPc = "store" /\ frame > 0

LeavesStreaming == pc \in StreamingPcs /\ pc' \notin StreamingPcs

PartOrder == <<"boundary", "type", "length", "blank", "bytes", "term">>

\* C13: the writes of a part come in the order boundary, Content-Type,
\* Content-Length, blank line, frame bytes, terminator; the Content-Length is
\* the length of the bytes written in that part, which are one whole
\* published buffer, whatever is published meanwhile.
C13_PartWellFormed ==
    /\ Len(part) <= Len(PartOrder)
    /\ \A i \in 1..Len(part) : part[i].kind = PartOrder[i]
    /\ (Len(part) >= 3 /\ pc = "w_frame") => part[3].val = Len(FrameBytes(sessFrame))
    /\ Len(part) >= 5 =>
          /\ part[3].val = Len(part[5].data)
          /\ \E k \in 1..version : part[5].data = FrameBytes(k)

C13_Witness ==
    /\ Len(part) = 6 /\ part[3].val = Len(part[5].data)
    /\ part[5].data # FrameBytes(frame) /\ pc = "lock"

KnownPaths == {"/", "/index.html", "/stream.mjpg"}

\* C14: an authenticated request for a path other than '/', '/index.html'
\* and '/stream.mjpg' gets the 404 response and nothing else, and never uses
\* the frame slot.
C14_UnknownPathNotFound ==
    (authRes.called /\ authRes.value /\ req.path \notin KnownPaths) =>
        /\ pc \in {"notfound_headers", "notfound_body", "return", "error"}
        /\ resp.status \in {0, 404}
        /\ pc = "return" => (resp.status = 404 /\ resp.body # "")
        /\ ~touched /\ part = <<>>
        /\ "main" \notin waiters /\ lockOwner # "main"

C14_Witness ==
    /\ pc = "return" /\ req.path = "/nonexistent" /\ authRes.value
    /\ resp.status = 404 /\ ~touched

StartupPcs == {"camera", "configure", "output", "start_recording"}
ShutdownPcs == {"stop_recording", "stop", "exited", "crashed"}

\* C15: the listener is bound only by the step that follows a successful
\* start_recording; a failure of a capture step ends the process abnormally
\* with no listener ever bound and no request ever served.
C15_StartupOrdering ==
    /\ [][(listener' /\ ~listener) => (recording /\ mainPc = "bind")]_vars
    /\ [][(mainPc \in StartupPcs /\ mainPc' \notin StartupPcs)
             => ((recording' /\ mainPc' = "bind") \/ mainPc' = "crashed")]_vars
    /\ [](mainPc \in StartupPcs \cup {"bind"} => (~listener /\ cur = 0))
    /\ []((mainPc = "crashed" /\ ~unhandled)
             => (~listener /\ cur = 0 /\ queue = <<>> /\ \A c \in Clients : st[c] = "idle"))
    /\ []((\E c \in Clients : st[c] # "idle")
             => (mainPc \in {"serve", "stop_recording", "stop", "exited"} /\ ~unhandled))

C15_Witness ==
    /\ mainPc = "crashed" /\ ~unhandled /\ ~listener /\ ~recording
    /\ \A c \in Clients : st[c] = "idle"

\* C17: when the process leaves serve_forever, by an interrupt or because the
\* listener could not be bound, no handler is running or blocked on the frame
\* slot any more, the capture pipeline is stopped after that on every such
\* path, and nothing is published once it is stopped.
C17_ShutdownOrdering ==
    /\ []((mainPc = "exited" \/ (mainPc = "crashed" /\ unhandled)) => ~recording)
    /\ [](mainPc \in ShutdownPcs =>
             (cur = 0 /\ pc = "idle" /\ waiters = {} /\ lockOwner # "main"))
    /\ [][(recording /\ ~recording') => (mainPc = "stop_recording" /\ cur = 0)]_vars
    /\ [][(mainPc \in {"stop", "exited", "crashed"})
             => (UNCHANGED <<frame, version, prodPc, cur>>)]_vars

C17_Witness ==
    /\ mainPc = "exited" /\ ~recording /\ version > 0
    /\ \E c \in Clients : st[c] = "done"

\* the stage of a session: 1 AUTHENTICATING (until its response head is
\* out), 2 STREAMING, 3 CLOSED, 0 when no request is being handled
Stage(p) ==
    IF p = "idle" THEN 0
    ELSE IF p \in StreamingPcs THEN 2
    ELSE IF p \in {"return", "closed", "error"} THEN 3
    ELSE 1

SameRequest == cur # 0 /\ cur' = cur

\* C16: within a request the stage never goes back and CLOSED is final;
\* check_auth runs once, before anything is written; STREAMING is entered
\* only with a positive result and the multipart response head, which is
\* written once and before any part; a finished connection is not served
\* again.
C16_SessionStateMachine ==
    /\ [][SameRequest => Stage(pc') >= Stage(pc)]_vars
    /\ [][Stage(pc) = 3 => pc' \in {pc, "idle"}]_vars
    /\ [][(SameRequest /\ authRes.called) => authRes' = authRes]_vars
    /\ [][(SameRequest /\ resp = StreamResponse) => resp' = resp]_vars
    /\ [][\A c \in Clients : st[c] = "done" => st'[c] = "done"]_vars
    /\ [](cur # 0 => (authRes.called <=> pc # "do_GET"))
    /\ [](~authRes.called => (resp = NoResp /\ part = <<>> /\ ~touched))
    /\ [](Stage(pc) = 2 => (authRes.value /\ resp = StreamResponse))
    /\ [](part # <<>> => resp = StreamResponse)

C16_Witness ==
    /\ pc = "closed" /\ resp = StreamResponse /\ authRes.value
    /\ Len(part) = 6 /\ failed

\* C18: a session past its wait holds a buffer, never None, stored by a
\* publish made after that wait began; before the first publish a session
\* stays blocked in the wait.
C18_NeverWritesNone ==
    /\ frame = 0 => (pc \notin PartPcs /\ pc # "woken")
    /\ (pc = "waiting" /\ version = 0) => "main" \in waiters
    /\ pc \in PartPcs =>
          /\ sessFrame # 0
          /\ sessFrame \in (waitBegin + 1)..version
          /\ FrameBytes(sessFrame) # <<>>
    /\ \A i \in 1..Len(part) : part[i].kind = "bytes" => part[i].data # <<>>

C18_Witness ==
    /\ pc = "w_term" /\ waitBegin = 0 /\ prevGot = 0 /\ sessFrame = 1
    /\ part[5].data = FrameBytes(1)

====
